---- MODULE Spec2Model ----
(***************************************************************************)
(* Model of bot.py: the host-monitoring Telegram bot.                      *)
(*                                                                         *)
(* main() loads the configuration, registers the /status handler and       *)
(* schedules monitor() as a repeating job.  monitor() and status() are     *)
(* coroutines of one asyncio event loop: each runs without interruption    *)
(* until it awaits (bot.send_message, reply_text), and get_state() is      *)
(* ordinary blocking code in both.                                         *)
(***************************************************************************)
EXTENDS Integers, Sequences, FiniteSets, TLC

\* Bounds of the model.
MaxReading == 1
MaxThreshold == 0
MaxPending == 1
MaxGpus == 2

\* run_repeating() is called without job_kwargs, so the job keeps the
\* scheduler's default of one running instance.
MaxInstances == 1

Kinds ==
    {"cpu_usage", "cpu_temperature", "gpu_temperature", "memory_usage", "gpu_memory_usage"}

\* The order of the tuple get_state() returns and of the checks in monitor().
KindOrder ==
    <<"cpu_usage", "cpu_temperature", "gpu_temperature", "memory_usage", "gpu_memory_usage">>

\* The keys main() reads from config["bot"].
BotKeys == {"token", "thresholds", "polling-frequency", "chat-id"}

\* A reading is None or a number: <<>> or <<n>>.
None == <<>>
Some(n) == <<n>>

ReadingValues == 0..MaxReading
ThresholdValues == (-1)..MaxThreshold

Max(S) == CHOOSE x \in S : \A y \in S : y <= x
Min(S) == CHOOSE x \in S : \A y \in S : x <= y

(***************************************************************************)
(* What the machine answers to one underlying query.                       *)
(*   value  : the library call returns the number v[1]                     *)
(*   absent : sensors_temperatures() has no 'coretemp' entry               *)
(*   raise  : the call raises an Exception                                 *)
(*   stdout : nvidia-smi terminates; v is its standard output, one         *)
(*            element per line                                             *)
(*   hang   : nvidia-smi never terminates                                  *)
(***************************************************************************)
Answer(t, v) == [t |-> t, v |-> v]

\* A line of output that int() rejects.
Junk == <<>>

\* Lines of `nvidia-smi --query-gpu=temperature.gpu`: <<temperature>>, or junk.
TempLines == {<<n>> : n \in ReadingValues} \cup {Junk}

\* Lines of `nvidia-smi --query-gpu=memory.used,memory.total`: <<used, total>>,
\* or junk.
MemLines == (ReadingValues \X {0, 100}) \cup {Junk}

SeqsUpTo(S, n) == UNION {[1..k -> S] : k \in 0..n}

Answers(kind) ==
    CASE kind = "cpu_usage" ->
           {Answer("value", <<v>>) : v \in ReadingValues} \cup {Answer("raise", <<>>)}
      [] kind = "cpu_temperature" ->
           {Answer("value", <<v>>) : v \in ReadingValues}
             \cup {Answer("absent", <<>>), Answer("raise", <<>>)}
      [] kind = "gpu_temperature" ->
           {Answer("stdout", s) : s \in SeqsUpTo(TempLines, MaxGpus)}
             \cup {Answer("raise", <<>>), Answer("hang", <<>>)}
      [] kind = "memory_usage" ->
           {Answer("value", <<v>>) : v \in ReadingValues} \cup {Answer("raise", <<>>)}
      [] kind = "gpu_memory_usage" ->
           {Answer("stdout", s) : s \in SeqsUpTo(MemLines, MaxGpus)}
             \cup {Answer("raise", <<>>), Answer("hang", <<>>)}

(***************************************************************************)
(* The probes.  A call returns a value, raises, or never returns.          *)
(***************************************************************************)
Ret(v) == [st |-> "ret", v |-> v, at |-> ""]
Raised(kind) == [st |-> "raise", v |-> None, at |-> kind]
Hung(kind) == [st |-> "hang", v |-> None, at |-> kind]

get_cpu_usage(a) ==
    IF a.t = "value" THEN Ret(Some(a.v[1])) ELSE Raised("cpu_usage")

get_cpu_temperature(a) ==
    CASE a.t = "value" -> Ret(Some(a.v[1]))
      [] a.t = "absent" -> Ret(None)
      [] OTHER -> Raised("cpu_temperature")

\* strip / replace / split / int / max on the standard output.
ParseGpuTemperature(out) ==
    IF out = <<>> \/ \E i \in 1..Len(out) : out[i] = Junk
    THEN None
    ELSE Some(Max({out[i][1] : i \in 1..Len(out)}))

get_gpu_temperature(a) ==
    CASE a.t = "hang" -> Hung("gpu_temperature")
      [] a.t = "stdout" -> Ret(ParseGpuTemperature(a.v))
      [] OTHER -> Ret(None)

get_memory_usage(a) ==
    IF a.t = "value" THEN Ret(Some(a.v[1])) ELSE Raised("memory_usage")

\* split(',') of the whole output, int() of its first two pieces, used / total * 100.
\* With more than one line the second piece spans a line break and int() rejects it.
\* The totals of MemLines are 0 and 100, for which the float result is the
\* integer computed here.
ParseGpuMemory(out) ==
    IF Len(out) # 1 THEN None
    ELSE IF out[1] = Junk THEN None
    ELSE IF out[1][2] = 0 THEN None
    ELSE Some((out[1][1] * 100) \div out[1][2])

get_gpu_memory_usage(a) ==
    CASE a.t = "hang" -> Hung("gpu_memory_usage")
      [] a.t = "stdout" -> Ret(ParseGpuMemory(a.v))
      [] OTHER -> Ret(None)

Probe(kind, a) ==
    CASE kind = "cpu_usage" -> get_cpu_usage(a)
      [] kind = "cpu_temperature" -> get_cpu_temperature(a)
      [] kind = "gpu_temperature" -> get_gpu_temperature(a)
      [] kind = "memory_usage" -> get_memory_usage(a)
      [] kind = "gpu_memory_usage" -> get_gpu_memory_usage(a)

\* The five probes in order; the first that raises or hangs ends the call.
get_state(m) ==
    LET r == [i \in 1..5 |-> Probe(KindOrder[i], m[KindOrder[i]])]
        bad == {i \in 1..5 : r[i].st # "ret"}
    IN  IF bad = {} THEN Ret([i \in 1..5 |-> r[i].v])
        ELSE r[Min(bad)]

\* The machine's answers to the five queries of one get_state() call.
MachineOf(c, t, g, r, v) ==
    [k \in Kinds |->
        CASE k = "cpu_usage" -> c
          [] k = "cpu_temperature" -> t
          [] k = "gpu_temperature" -> g
          [] k = "memory_usage" -> r
          [] k = "gpu_memory_usage" -> v]

\* One answer for each result the probe of `kind` can deliver.
Representatives(kind) ==
    LET results == {Probe(kind, a) : a \in Answers(kind)}
    IN  {CHOOSE a \in Answers(kind) : Probe(kind, a) = r : r \in results}

\* The query of `kind` does not deliver a number.
Fails(kind, a) ==
    \/ a.t \in {"absent", "raise"}
    \/ a.t = "stdout" /\ Probe(kind, a).v = None

\* What one get_state() call can meet: the machines, the temperature query
\* answering from GpuTemp.
MachinesWith(GpuTemp) ==
    {MachineOf(c, t, g, r, v) :
        c \in Representatives("cpu_usage"),
        t \in Representatives("cpu_temperature"),
        g \in GpuTemp,
        r \in Representatives("memory_usage"),
        v \in Representatives("gpu_memory_usage")}

\* One sampling: what get_state() does, whether no query delivered a number,
\* and the output of the temperature query.
Sampling(m) ==
    [got |-> get_state(m),
     all_unavailable |-> \A k \in Kinds : Fails(k, m[k]),
     stdout |-> IF m["gpu_temperature"].t = "stdout"
                THEN <<m["gpu_temperature"].v>> ELSE <<>>]

Samplings == {[Sampling(m) EXCEPT !.stdout = <<>>] :
                 m \in MachinesWith(Representatives("gpu_temperature"))}
RecordedSamplings == {Sampling(m) : m \in MachinesWith(Answers("gpu_temperature"))}

(***************************************************************************)
(* The checks of monitor().                                                *)
(***************************************************************************)
\* Python's truth value of a reading: None and 0 are false.
Truthy(x) == x # None /\ x[1] # 0

Line(kind, x) == [kind |-> kind, value |-> x]

\* `if x > thresholds[kind]`
Check(acc, th, kind, x) ==
    IF acc.exc # "none" THEN acc
    ELSE IF kind \notin DOMAIN th THEN [acc EXCEPT !.exc = "KeyError"]
    ELSE IF x = None THEN [acc EXCEPT !.exc = "TypeError"]
    ELSE IF x[1] > th[kind] THEN [acc EXCEPT !.alert = Append(@, Line(kind, x[1]))]
    ELSE acc

\* `if x and x > thresholds[kind]`
GuardedCheck(acc, th, kind, x) ==
    IF acc.exc # "none" THEN acc
    ELSE IF ~Truthy(x) THEN acc
    ELSE Check(acc, th, kind, x)

Evaluate(numbers, th) ==
    LET a0 == [exc |-> "none", alert |-> <<>>]
        a1 == Check(a0, th, "cpu_usage", numbers[1])
        a2 == GuardedCheck(a1, th, "cpu_temperature", numbers[2])
        a3 == GuardedCheck(a2, th, "gpu_temperature", numbers[3])
        a4 == Check(a3, th, "memory_usage", numbers[4])
        a5 == GuardedCheck(a4, th, "gpu_memory_usage", numbers[5])
    IN  a5

(***************************************************************************)
(* State.                                                                  *)
(***************************************************************************)
VARIABLES
    cfg,            \* keys present in config["bot"]
    thresholds,     \* config["bot"]["thresholds"], a dict
    proc,           \* main(): "starting", "polling" or "crashed"
    armed,          \* the repeating job is scheduled
    instances,      \* running instances of the job
    skipped,        \* a tick was skipped during the current cycle
    mon_pc,         \* monitor(): "Idle", "Sampling", "Evaluating", "Dispatching"
    mon_hung,       \* monitor() is inside a probe call that never returns
    numbers,        \* monitor(): the tuple get_state() returned
    alert_message,  \* monitor(): the lines composed
    send_state,     \* send_alert(): "none", "inflight", "ok", "failed"
    sends,          \* calls of bot.send_message in the current cycle
    mon_result,     \* how the last run of monitor() ended
    smi_stdout,     \* <<the temperature output of nvidia-smi>> when recorded
    pending,        \* /status updates received and not yet handled
    st_pc,          \* status(): "Idle", "Collecting", "Replying"
    st_hung         \* status() is inside a probe call that never returns

vars ==
    <<cfg, thresholds, proc, armed, instances, skipped, mon_pc, mon_hung, numbers,
      alert_message, send_state, sends, mon_result, smi_stdout, pending, st_pc,
      st_hung>>

cfgVars == <<cfg, thresholds, proc, armed>>
monVars ==
    <<instances, skipped, mon_pc, mon_hung, numbers, alert_message, send_state,
      sends, mon_result, smi_stdout>>
stVars == <<pending, st_pc, st_hung>>

\* How a run of monitor() ended: it returned, or an exception left it.  `at` is
\* the probe that raised, or the exception of a check; `all_unavailable` tells whether none
\* of the five queries of that cycle delivered a number.
Ended(end, at, all) == [end |-> end, at |-> at, all_unavailable |-> all]
NoResult == Ended("none", "", FALSE)

\* A thresholds dict with every key, and one with keys missing.
FullThresholds == [Kinds -> ThresholdValues]
PartialThresholds == UNION {[D -> {0}] : D \in (SUBSET Kinds) \ {Kinds}}

Init ==
    /\ \/ cfg = BotKeys /\ thresholds \in FullThresholds \cup PartialThresholds
       \/ cfg \in (SUBSET BotKeys) \ {BotKeys} /\ thresholds = [k \in Kinds |-> 0]
    /\ proc = "starting"
    /\ armed = FALSE
    /\ instances = 0
    /\ skipped = FALSE
    /\ mon_pc = "Idle"
    /\ mon_hung = FALSE
    /\ numbers = <<>>
    /\ alert_message = <<>>
    /\ send_state = "none"
    /\ sends = 0
    /\ mon_result = NoResult
    /\ smi_stdout = <<>>
    /\ pending = 0
    /\ st_pc = "Idle"
    /\ st_hung = FALSE

(***************************************************************************)
(* The event loop: one thread.  A coroutine holds it from the moment it is *)
(* started or resumed until it awaits or returns.                          *)
(***************************************************************************)
MonitorHoldsLoop ==
    \/ mon_pc \in {"Sampling", "Evaluating"}
    \/ mon_pc = "Dispatching" /\ send_state # "inflight"

StatusHoldsLoop == st_pc = "Collecting"

LoopFree == ~MonitorHoldsLoop /\ ~StatusHoldsLoop

(***************************************************************************)
(* main()                                                                  *)
(***************************************************************************)
\* Every config[...] lookup of main() precedes run_repeating(): a missing key
\* raises KeyError before the job is scheduled.
Main ==
    /\ proc = "starting"
    /\ IF BotKeys \subseteq cfg
       THEN proc' = "polling" /\ armed' = TRUE
       ELSE proc' = "crashed" /\ armed' = FALSE
    /\ UNCHANGED <<cfg, thresholds, monVars, stVars>>

(***************************************************************************)
(* The repeating job.                                                      *)
(***************************************************************************)
\* A scheduler that starts every due job.
AdmitsAlways(n) == TRUE

\* The scheduler starts a due job only below its limit of running instances.
Admits(n) == n < MaxInstances

\* The timer fires.  The scheduler runs on the event loop.
Tick ==
    /\ proc = "polling" /\ armed
    /\ LoopFree
    /\ IF Admits(instances)
       THEN /\ instances' = instances + 1
            /\ mon_pc' = "Sampling"
            /\ mon_hung' = FALSE
            /\ numbers' = <<>>
            /\ alert_message' = <<>>
            /\ send_state' = "none"
            /\ sends' = 0
            /\ skipped' = FALSE
            /\ mon_result' = NoResult
            /\ smi_stdout' = <<>>
       ELSE /\ skipped' = TRUE
            /\ UNCHANGED <<instances, mon_pc, mon_hung, numbers, alert_message,
                           send_state, sends, mon_result, smi_stdout>>
    /\ UNCHANGED <<cfgVars, stVars>>

\* monitor() ends: by returning, or by an exception that leaves it.
MonitorEnds(result) ==
    /\ mon_pc' = "Idle"
    /\ instances' = instances - 1
    /\ mon_hung' = FALSE
    /\ numbers' = <<>>
    /\ alert_message' = <<>>
    /\ send_state' = "none"
    /\ sends' = 0
    /\ skipped' = FALSE
    /\ smi_stdout' = <<>>
    /\ mon_result' = result

\* Line 131: numbers = get_state().  With `record`, every output of the
\* temperature query is told apart and kept in smi_stdout.
MonitorSample(record) ==
    /\ mon_pc = "Sampling" /\ ~mon_hung
    /\ \E s \in IF record THEN RecordedSamplings ELSE Samplings :
          CASE s.got.st = "ret" ->
                 /\ numbers' = s.got.v
                 /\ mon_pc' = "Evaluating"
                 /\ smi_stdout' = s.stdout
                 /\ UNCHANGED <<instances, skipped, mon_hung, alert_message,
                                send_state, sends, mon_result>>
            [] s.got.st = "raise" ->
                 MonitorEnds(Ended("raised", s.got.at, s.all_unavailable))
            [] s.got.st = "hang" ->
                 /\ mon_hung' = TRUE
                 /\ UNCHANGED <<instances, skipped, mon_pc, numbers, alert_message,
                                send_state, sends, mon_result, smi_stdout>>
    /\ UNCHANGED <<cfgVars, stVars>>

\* Lines 133-149: thresholds = context.job.data, and the five checks.  The
\* tuple is not read after them.
MonitorEvaluate ==
    /\ mon_pc = "Evaluating"
    /\ LET e == Evaluate(numbers, thresholds)
       IN  IF e.exc = "none"
           THEN /\ alert_message' = e.alert
                /\ mon_pc' = "Dispatching"
                /\ numbers' = <<>>
                /\ UNCHANGED <<instances, skipped, mon_hung, send_state, sends,
                               mon_result, smi_stdout>>
           ELSE MonitorEnds(Ended("raised", e.exc, FALSE))
    /\ UNCHANGED <<cfgVars, stVars>>

\* Lines 151-153: `if alert_message:` then send_alert() calls bot.send_message
\* and awaits it.
MonitorDispatch ==
    /\ mon_pc = "Dispatching" /\ send_state = "none"
    /\ IF alert_message # <<>>
       THEN /\ sends' = sends + 1
            /\ send_state' = "inflight"
            /\ UNCHANGED <<instances, skipped, mon_pc, mon_hung, numbers,
                           alert_message, mon_result, smi_stdout>>
       ELSE MonitorEnds(Ended("returned", "", FALSE))
    /\ UNCHANGED <<cfgVars, stVars>>

\* Line 95: the awaited send_message delivers the message.
SendSucceeds ==
    /\ mon_pc = "Dispatching" /\ send_state = "inflight"
    /\ ~StatusHoldsLoop
    /\ send_state' = "ok"
    /\ UNCHANGED <<cfgVars, stVars, instances, skipped, mon_pc, mon_hung, numbers,
                   alert_message, sends, mon_result, smi_stdout>>

\* A send_alert() that sends again after a failure.
SendFailsRetry ==
    /\ mon_pc = "Dispatching" /\ send_state = "inflight"
    /\ ~StatusHoldsLoop
    /\ sends' = sends + 1
    /\ send_state' = "inflight"
    /\ UNCHANGED <<cfgVars, stVars, instances, skipped, mon_pc, mon_hung, numbers,
                   alert_message, mon_result, smi_stdout>>

\* Lines 96-97: the awaited send_message raises; send_alert() logs the error.
SendFails ==
    /\ mon_pc = "Dispatching" /\ send_state = "inflight"
    /\ ~StatusHoldsLoop
    /\ send_state' = "failed"
    /\ UNCHANGED <<cfgVars, stVars, instances, skipped, mon_pc, mon_hung, numbers,
                   alert_message, sends, mon_result, smi_stdout>>

\* send_alert() returns and monitor() with it.
MonitorReturn ==
    /\ mon_pc = "Dispatching" /\ send_state \in {"ok", "failed"}
    /\ MonitorEnds(Ended("returned", "", FALSE))
    /\ UNCHANGED <<cfgVars, stVars>>

(***************************************************************************)
(* The /status command.                                                    *)
(***************************************************************************)
\* A /status update reaches the bot.
StatusArrives ==
    /\ proc = "polling"
    /\ pending < MaxPending
    /\ pending' = pending + 1
    /\ UNCHANGED <<cfgVars, monVars, st_pc, st_hung>>

\* The application hands the next update to status(); updates are handled one
\* at a time.
StatusStart ==
    /\ proc = "polling"
    /\ pending > 0 /\ st_pc = "Idle"
    /\ LoopFree
    /\ pending' = pending - 1
    /\ st_pc' = "Collecting"
    /\ UNCHANGED <<cfgVars, monVars, st_hung>>

\* Lines 110-124: get_state(), the message, and the call of reply_text, whose
\* text goes to the transport.
StatusCollect ==
    /\ st_pc = "Collecting" /\ ~st_hung
    /\ \E st \in {s.got.st : s \in Samplings} :
          CASE st = "ret" -> st_pc' = "Replying" /\ st_hung' = FALSE
            [] st = "raise" -> st_pc' = "Idle" /\ st_hung' = FALSE
            [] st = "hang" -> st_pc' = "Collecting" /\ st_hung' = TRUE
    /\ UNCHANGED <<cfgVars, monVars, pending>>

\* Lines 124-126: the awaited reply_text ends (delivered or raising) and
\* status() with it.
StatusReplied ==
    /\ st_pc = "Replying"
    /\ ~MonitorHoldsLoop
    /\ st_pc' = "Idle"
    /\ UNCHANGED <<cfgVars, monVars, pending, st_hung>>

(***************************************************************************)
(* Specifications.                                                         *)
(***************************************************************************)
Next ==
    \/ Main
    \/ Tick
    \/ MonitorSample(FALSE)
    \/ MonitorEvaluate
    \/ MonitorDispatch
    \/ SendSucceeds
    \/ SendFails
    \/ MonitorReturn
    \/ StatusArrives
    \/ StatusStart
    \/ StatusCollect
    \/ StatusReplied

Spec == Init /\ [][Next]_vars

\* The event loop resumes every coroutine that is ready, and the transport
\* answers every call; the timer and the users are not obliged to act.
Fairness ==
    /\ SF_vars(MonitorSample(FALSE))
    /\ SF_vars(MonitorEvaluate)
    /\ SF_vars(MonitorDispatch)
    /\ SF_vars(SendSucceeds \/ SendFails)
    /\ SF_vars(MonitorReturn)
    /\ SF_vars(StatusStart)
    /\ SF_vars(StatusCollect)
    /\ SF_vars(StatusReplied)

FairSpec == Spec /\ Fairness

\* The same program, the output of the temperature query kept for each cycle.
GpuNext ==
    \/ Main
    \/ Tick
    \/ MonitorSample(TRUE)
    \/ MonitorEvaluate
    \/ MonitorDispatch
    \/ SendSucceeds
    \/ SendFails
    \/ MonitorReturn
    \/ StatusArrives
    \/ StatusStart
    \/ StatusCollect
    \/ StatusReplied

GpuSpec == Init /\ [][GpuNext]_vars

(***************************************************************************)
(* Properties.                                                             *)
(***************************************************************************)
\* The step of monitor() from its checks to `if alert_message:`.
Evaluated == mon_pc = "Evaluating" /\ mon_pc' = "Dispatching"

HasLine(alert, kind) == \E i \in 1..Len(alert) : alert[i].kind = kind

\* The reading of the i-th kind is available and above its threshold.
Breaches(i) ==
    /\ numbers[i] # None
    /\ KindOrder[i] \in DOMAIN thresholds
    /\ numbers[i][1] > thresholds[KindOrder[i]]

\* The kinds of KindOrder[i..5] that breach, in that order.
RECURSIVE BreachingFrom(_)
BreachingFrom(i) ==
    IF i > 5 THEN <<>>
    ELSE (IF Breaches(i) THEN <<KindOrder[i]>> ELSE <<>>) \o BreachingFrom(i + 1)

\* C1: in a cycle, for each kind, an available reading equal to its threshold
\* gives no alert line of that kind, and an available reading one above its
\* threshold gives one.
StrictThresholdBoundary ==
    [][Evaluated =>
        \A i \in 1..5 :
            LET k == KindOrder[i]
            IN  (numbers[i] # None /\ k \in DOMAIN thresholds) =>
                  /\ numbers[i][1] = thresholds[k] => ~HasLine(alert_message', k)
                  /\ numbers[i][1] = thresholds[k] + 1 => HasLine(alert_message', k)]_vars

\* C2: a cycle in which none of the five queries delivers a number completes
\* its evaluation with an empty alert and sends nothing (it returns, no
\* exception leaves it), and no check compares a reading that is None.
AllUnavailableEmptyAlert ==
    /\ mon_result.all_unavailable => mon_result.end = "returned"
    /\ mon_result.at # "TypeError"

\* C3: a cycle calls bot.send_message once when the composed alert is not
\* empty and never when it is empty; a failed send is not repeated, and the
\* cycle then ends by returning.
DispatchOnce ==
    [][/\ sends' <= 1
       /\ (mon_pc # "Idle" /\ mon_pc' = "Idle") =>
             sends = (IF alert_message # <<>> THEN 1 ELSE 0)
       /\ (send_state = "failed" /\ monVars' # monVars) =>
             mon_pc' = "Idle" /\ mon_result'.end = "returned"]_vars

\* C3, witness: the one send of a cycle has failed and the cycle goes on.
FailedSendWitness ==
    mon_pc = "Dispatching" /\ send_state = "failed" /\ sends = 1 /\ alert_message # <<>>

\* C4: a run of monitor() starts only when none is in progress: a tick that
\* arrives during a cycle starts no second one.
SingleFlight ==
    [][instances' > instances => (mon_pc = "Idle" /\ instances = 0)]_vars

\* C4, witness: a tick arrived while the cycle awaited its send, and was skipped.
SkippedTickWitness ==
    mon_pc = "Dispatching" /\ send_state = "inflight" /\ skipped /\ instances = 1

\* C5: a /status update waiting during a cycle can be handled at once, and a
\* cycle that awaits its send can go on at once: neither holds the event loop
\* against the other.
StatusAndCycleIndependent ==
    /\ (pending > 0 /\ st_pc = "Idle" /\ mon_pc # "Idle") => ~MonitorHoldsLoop
    /\ (mon_pc = "Dispatching" /\ send_state = "inflight") => ~StatusHoldsLoop

\* C6: every cycle that starts returns to Idle and every status request ends,
\* also when nvidia-smi never terminates.
HungProbeAbandoned ==
    /\ (mon_pc # "Idle") ~> (mon_pc = "Idle")
    /\ (st_pc # "Idle") ~> (st_pc = "Idle")

\* C7: a failing query of any kind gives an unavailable reading: no probe
\* raises out of get_state(), so no cycle ends by a probe's exception.
ProbeFailureIsolated ==
    mon_result.end = "raised" => mon_result.at \notin Kinds

\* C8: the lines of the composed alert are those of the breaching kinds, one
\* each, in the order cpu_usage, cpu_temperature, gpu_temperature,
\* memory_usage, gpu_memory_usage.
AlertLineOrder ==
    [][Evaluated =>
        [i \in 1..Len(alert_message') |-> alert_message'[i].kind] = BreachingFrom(1)]_vars

\* C9: with a threshold missing from the configuration the job is never
\* scheduled, and no cycle meets the missing key.
ConfigErrorFatalAtStartup ==
    /\ armed => Kinds \subseteq DOMAIN thresholds
    /\ mon_result.at # "KeyError"

\* C10: when nvidia-smi prints several temperatures, the reading is their
\* maximum, and the cycle has the GPU temperature line exactly when one of
\* them is above the threshold.
HottestGpuAlerts ==
    [][(/\ Evaluated
        /\ smi_stdout # <<>>
        /\ Len(smi_stdout[1]) >= 2
        /\ \A j \in 1..Len(smi_stdout[1]) : smi_stdout[1][j] # Junk
        /\ "gpu_temperature" \in DOMAIN thresholds) =>
          /\ numbers[3] = Some(Max({smi_stdout[1][j][1] : j \in 1..Len(smi_stdout[1])}))
          /\ HasLine(alert_message', "gpu_temperature") <=>
               \E j \in 1..Len(smi_stdout[1]) :
                  smi_stdout[1][j][1] > thresholds["gpu_temperature"]]_vars

====
